---- MODULE Spec2Model ----
(***************************************************************************)
(* Model of src/subrecord.rs (libespm / esplugin): the subrecord parser    *)
(* Subrecord::new with its three wire variants, and the payload            *)
(* decompressor Subrecord::decompress_data.                                *)
(*                                                                         *)
(* Bytes are naturals in 0..255, byte slices are sequences.  A parser      *)
(* outcome is nom's IResult: Done(remaining, value), Incomplete or Error.  *)
(***************************************************************************)
EXTENDS Naturals, Sequences, FiniteSets

VARIABLES input, pc, op, game_id, data_length_override, is_compressed,
          result, subrecord, decompressed

vars == <<input, pc, op, game_id, data_length_override, is_compressed,
          result, subrecord, decompressed>>

(***************************************************************************)
(* Bounds of the model.                                                    *)
(***************************************************************************)
MaxBody == 5
MaxOverride == 3
MaxStream == 6

SUBRECORD_TYPE_LENGTH == 4

(***************************************************************************)
(* GameId, as used by the parser and its tests.                            *)
(***************************************************************************)
GameIds == {"Morrowind", "Oblivion", "Skyrim", "Fallout3", "FalloutNV", "Fallout4"}

(***************************************************************************)
(* Input alphabets.  TagBytes: NUL, 'A', a UTF-8 continuation byte and a   *)
(* UTF-8 two-byte lead.  BodyBytes: bytes of length fields and payloads,    *)
(* all below 128 so that every decoded u32 stays below 2^31.               *)
(* StreamBytes: bytes of compressed payloads; as DEFLATE block headers     *)
(* they all select a stored block (BTYPE 00) or the reserved type          *)
(* (BTYPE 11), the two block types Inflate decodes.                        *)
(***************************************************************************)
TagBytes == {0, 65, 128, 200}
BodyBytes == {0, 1, 127}
StreamBytes == {0, 1, 254, 255}

SeqsUpTo(S, n) == UNION {[1..k -> S] : k \in 0..n}

Tags == { <<65, 65, 65, 65>>, <<65, 0, 65, 65>>,
          <<200, 128, 65, 65>>, <<65, 128, 65, 65>> }

Inputs ==
    SeqsUpTo(TagBytes, SUBRECORD_TYPE_LENGTH - 1)
    \cup {t \o <<0, 0, 0, 0>> : t \in [1..SUBRECORD_TYPE_LENGTH -> TagBytes]}
    \cup {t \o b : t \in Tags, b \in SeqsUpTo(BodyBytes, MaxBody)}

Hints == { <<0, 0, 0, 0>>, <<1, 0, 0, 0>>, <<127, 127, 127, 127>> }

(***************************************************************************)
(* struct Subrecord and the outcomes of the two entry points.              *)
(***************************************************************************)
Subrecord(t, d, c) == [subrecord_type |-> t, data |-> d, is_compressed |-> c]

NoSubrecord == Subrecord(<<>>, <<>>, FALSE)

Done(rem, v) == [kind |-> "Done", remaining |-> rem, value |-> v]
Incomplete == [kind |-> "Incomplete", remaining |-> <<>>, value |-> <<>>]
Error == [kind |-> "Error", remaining |-> <<>>, value |-> <<>>]
NoResult == [kind |-> "None", remaining |-> <<>>, value |-> <<>>]

Ok(bytes) == [kind |-> "Ok", bytes |-> bytes]
Err == [kind |-> "Err", bytes |-> <<>>]
Panic == [kind |-> "Panic", bytes |-> <<>>]
NotCalled == [kind |-> "NotCalled", bytes |-> <<>>]

(***************************************************************************)
(* nom primitives.                                                         *)
(***************************************************************************)
Drop(s, n) == SubSeq(s, n + 1, Len(s))

take_Short(i, n) ==
    IF Len(i) < n THEN Done(<<>>, i)
    ELSE Done(Drop(i, n), SubSeq(i, 1, n))

take_OffByOne(i, n) ==
    IF Len(i) <= n THEN Incomplete
    ELSE Done(Drop(i, n), SubSeq(i, 1, n))

take(i, n) ==
    IF Len(i) < n THEN Incomplete
    ELSE Done(Drop(i, n), SubSeq(i, 1, n))

le_u16_BigEndian(i) ==
    IF Len(i) < 2 THEN Incomplete
    ELSE Done(Drop(i, 2), 256 * i[1] + i[2])

le_u16(i) ==
    IF Len(i) < 2 THEN Incomplete
    ELSE Done(Drop(i, 2), i[1] + 256 * i[2])

le_u32(i) ==
    IF Len(i) < 4 THEN Incomplete
    ELSE Done(Drop(i, 4), i[1] + 256 * i[2] + 65536 * i[3] + 16777216 * i[4])

length_bytes_le_u16(i) ==
    LET l == le_u16(i) IN
    IF l.kind # "Done" THEN l ELSE take(l.remaining, l.value)

length_bytes_le_u32(i) ==
    LET l == le_u32(i) IN
    IF l.kind # "Done" THEN l ELSE take(l.remaining, l.value)

(***************************************************************************)
(* str::from_utf8, as applied by take_str!.                                *)
(***************************************************************************)
utf8_char_width(b) ==
    IF b < 128 THEN 1
    ELSE IF b \in 194..223 THEN 2
    ELSE IF b \in 224..239 THEN 3
    ELSE IF b \in 240..244 THEN 4
    ELSE 0

RECURSIVE run_utf8_validation(_, _)
run_utf8_validation(v, index) ==
    IF index > Len(v) THEN TRUE
    ELSE
      LET first == v[index]
          w == utf8_char_width(first)
          has(k) == index + k <= Len(v)
          cont(k) == v[index + k] \in 128..191
      IN
      CASE w = 1 -> run_utf8_validation(v, index + 1)
        [] w = 2 -> has(1) /\ cont(1) /\ run_utf8_validation(v, index + 2)
        [] w = 3 ->
             /\ has(2)
             /\ \/ first = 224 /\ v[index + 1] \in 160..191
                \/ first \in 225..236 /\ v[index + 1] \in 128..191
                \/ first = 237 /\ v[index + 1] \in 128..159
                \/ first \in 238..239 /\ v[index + 1] \in 128..191
             /\ cont(2)
             /\ run_utf8_validation(v, index + 3)
        [] w = 4 ->
             /\ has(3)
             /\ \/ first = 240 /\ v[index + 1] \in 144..191
                \/ first \in 241..243 /\ v[index + 1] \in 128..191
                \/ first = 244 /\ v[index + 1] \in 128..143
             /\ cont(2)
             /\ cont(3)
             /\ run_utf8_validation(v, index + 4)
        [] OTHER -> FALSE

from_utf8(v) == run_utf8_validation(v, 1)

(***************************************************************************)
(* named!(subrecord_type <&str>, take_str!(SUBRECORD_TYPE_LENGTH))         *)
(***************************************************************************)
subrecord_type_Unchecked(i) == take(i, SUBRECORD_TYPE_LENGTH)

subrecord_type(i) ==
    LET t == take(i, SUBRECORD_TYPE_LENGTH) IN
    IF t.kind # "Done" THEN t
    ELSE IF from_utf8(t.value) THEN t
    ELSE Error

(***************************************************************************)
(* The three wire variants.                                                *)
(***************************************************************************)
morrowind_subrecord(i) ==
    LET t == subrecord_type(i) IN
    IF t.kind # "Done" THEN t
    ELSE LET d == length_bytes_le_u32(t.remaining) IN
         IF d.kind # "Done" THEN d
         ELSE Done(d.remaining, Subrecord(t.value, d.value, FALSE))

simple_subrecord_DropsFlag(i, c) ==
    LET t == subrecord_type(i) IN
    IF t.kind # "Done" THEN t
    ELSE LET d == length_bytes_le_u16(t.remaining) IN
         IF d.kind # "Done" THEN d
         ELSE Done(d.remaining, Subrecord(t.value, d.value, FALSE))

simple_subrecord(i, c) ==
    LET t == subrecord_type(i) IN
    IF t.kind # "Done" THEN t
    ELSE LET d == length_bytes_le_u16(t.remaining) IN
         IF d.kind # "Done" THEN d
         ELSE Done(d.remaining, Subrecord(t.value, d.value, c))

presized_subrecord_UsesWireLength(i, data_length, c) ==
    LET t == subrecord_type(i) IN
    IF t.kind # "Done" THEN t
    ELSE LET l == le_u16(t.remaining) IN
         IF l.kind # "Done" THEN l
         ELSE LET n == IF l.value < data_length THEN l.value ELSE data_length
                  d == take(l.remaining, n) IN
              IF d.kind # "Done" THEN d
              ELSE Done(d.remaining, Subrecord(t.value, d.value, c))

presized_subrecord(i, data_length, c) ==
    LET t == subrecord_type(i) IN
    IF t.kind # "Done" THEN t
    ELSE LET l == le_u16(t.remaining) IN
         IF l.kind # "Done" THEN l
         ELSE LET d == take(l.remaining, data_length) IN
              IF d.kind # "Done" THEN d
              ELSE Done(d.remaining, Subrecord(t.value, d.value, c))

(***************************************************************************)
(* Subrecord::new                                                          *)
(***************************************************************************)
Subrecord_new_OverrideFirst(i, g, n, c) ==
    IF n # 0 THEN presized_subrecord(i, n, c)
    ELSE IF g = "Morrowind" THEN morrowind_subrecord(i)
    ELSE simple_subrecord(i, c)

Subrecord_new(i, g, n, c) ==
    IF g = "Morrowind" THEN morrowind_subrecord(i)
    ELSE IF n # 0 THEN presized_subrecord(i, n, c)
    ELSE simple_subrecord(i, c)

(***************************************************************************)
(* DeflateDecoder::new(..) followed by read_to_end: a raw DEFLATE          *)
(* (RFC 1951) decoder for stored blocks.  Each block starts on a byte      *)
(* boundary with BFINAL in bit 0 and BTYPE in bits 1-2 of its first byte;  *)
(* a stored block continues with LEN, NLEN (little-endian, NLEN the one's  *)
(* complement of LEN) and LEN literal bytes.  A reserved block type, a     *)
(* LEN/NLEN mismatch and a stream that ends before its final block is      *)
(* complete are decompression failures.  Huffman-coded blocks (BTYPE 01,   *)
(* 10) are outside StreamBytes and are not decoded.                        *)
(***************************************************************************)
RECURSIVE InflateBlocks(_, _, _)
InflateBlocks(s, pos, out) ==
    IF pos > Len(s) THEN Err
    ELSE
      LET bfinal == s[pos] % 2
          btype == (s[pos] \div 2) % 4
      IN
      IF btype = 0 THEN
        IF pos + 4 > Len(s) THEN Err
        ELSE
          LET len == s[pos + 1] + 256 * s[pos + 2]
              nlen == s[pos + 3] + 256 * s[pos + 4]
          IN
          IF len + nlen # 65535 THEN Err
          ELSE IF pos + 4 + len > Len(s) THEN Err
          ELSE
            LET out2 == out \o SubSeq(s, pos + 5, pos + 4 + len) IN
            IF bfinal = 1 THEN Ok(out2)
            ELSE InflateBlocks(s, pos + 5 + len, out2)
      ELSE IF btype = 3 THEN Err
      ELSE [kind |-> "Unmodelled", bytes |-> <<>>]

Inflate(s) == InflateBlocks(s, 1, <<>>)

(***************************************************************************)
(* Subrecord::decompress_data.  Slicing &self.data[4..] panics when data   *)
(* has fewer than 4 bytes.                                                 *)
(***************************************************************************)
decompress_data_AlwaysSkipsHint(s) ==
    IF Len(s.data) < 4 THEN Panic
    ELSE Inflate(Drop(s.data, 4))

decompress_data_ChecksHint(s) ==
    IF ~s.is_compressed THEN Ok(s.data)
    ELSE IF Len(s.data) < 4 THEN Panic
    ELSE LET r == Inflate(Drop(s.data, 4))
             hint == s.data[1] + 256 * s.data[2] + 65536 * s.data[3]
                     + 16777216 * s.data[4]
         IN IF r.kind = "Ok" /\ Len(r.bytes) # hint THEN Err ELSE r

decompress_data(s) ==
    IF ~s.is_compressed THEN Ok(s.data)
    ELSE IF Len(s.data) < 4 THEN Panic
    ELSE Inflate(Drop(s.data, 4))

(***************************************************************************)
(* Specification of the parser: the caller holds an input slice, parses    *)
(* it once with Subrecord::new (or with the presized parser itself) and    *)
(* may then decompress the Subrecord it got, any number of times.          *)
(* op, game_id, data_length_override and is_compressed record the call.    *)
(***************************************************************************)
Init ==
    /\ input \in Inputs
    /\ pc = "input"
    /\ op = "none"
    /\ game_id = "Morrowind"
    /\ data_length_override = 0
    /\ is_compressed = FALSE
    /\ result = NoResult
    /\ subrecord = NoSubrecord
    /\ decompressed = NotCalled

Store(r) ==
    /\ pc' = "parsed"
    /\ result' = r
    /\ subrecord' = IF r.kind = "Done" THEN r.value ELSE NoSubrecord
    /\ UNCHANGED <<input, decompressed>>

New ==
    \E g \in GameIds, n \in 0..MaxOverride, c \in BOOLEAN :
        /\ pc = "input"
        /\ op' = "new"
        /\ game_id' = g
        /\ data_length_override' = n
        /\ is_compressed' = c
        /\ Store(Subrecord_new(input, g, n, c))

Presized ==
    \E g \in GameIds \ {"Morrowind"}, n \in 0..MaxOverride, c \in BOOLEAN :
        /\ pc = "input"
        /\ op' = "presized_subrecord"
        /\ game_id' = g
        /\ data_length_override' = n
        /\ is_compressed' = c
        /\ Store(presized_subrecord(input, n, c))

DecompressData ==
    /\ pc \in {"parsed", "decompressed"}
    /\ result.kind = "Done"
    /\ pc' = "decompressed"
    /\ decompressed' = decompress_data(subrecord)
    /\ UNCHANGED <<input, op, game_id, data_length_override, is_compressed,
                   result, subrecord>>

Next == New \/ Presized \/ DecompressData

Spec == Init /\ [][Next]_vars

(***************************************************************************)
(* Specification of the decompressor: the state after Subrecord::new has   *)
(* parsed a short-length subrecord whose payload is a size hint followed   *)
(* by a stream (or fewer than 4 bytes), then calls of decompress_data.     *)
(***************************************************************************)
Payloads ==
    SeqsUpTo(StreamBytes, 3)
    \cup {h \o st : h \in Hints, st \in SeqsUpTo(StreamBytes, MaxStream)}

InitD ==
    \E d \in Payloads, c \in BOOLEAN :
        /\ input = <<65, 65, 65, 65>> \o <<Len(d) % 256, Len(d) \div 256>> \o d
        /\ pc = "parsed"
        /\ op = "new"
        /\ game_id = "Skyrim"
        /\ data_length_override = 0
        /\ is_compressed = c
        /\ result = Subrecord_new(input, "Skyrim", 0, c)
        /\ subrecord = result.value
        /\ decompressed = NotCalled

NextD == DecompressData

SpecD == InitD /\ [][NextD]_vars

(***************************************************************************)
(* Properties.                                                             *)
(***************************************************************************)

\* C1: with game_id = Morrowind, Subrecord::new dispatches to the
\* long-length variant whatever data_length_override and is_compressed are:
\* its outcome is the outcome of the call with data_length_override = 0.
C1_MorrowindIgnoresOverride ==
    (op = "new" /\ game_id = "Morrowind") =>
        /\ result = morrowind_subrecord(input)
        /\ result = Subrecord_new(input, "Morrowind", 0, is_compressed)

C1_Witness ==
    /\ op = "new"
    /\ game_id = "Morrowind"
    /\ data_length_override # 0
    /\ result.kind = "Done"
    /\ Len(result.value.data) # data_length_override
    /\ Len(input) >= 6 + data_length_override

C3_PresizedUsesOverride ==
    (op = "new" /\ game_id # "Morrowind" /\ data_length_override # 0) =>
        LET n == data_length_override IN
        /\ result.kind = "Done" =>
              /\ Len(input) >= 6 + n
              /\ result.value.data = SubSeq(input, 7, 6 + n)
              /\ Len(result.value.data) = n
              /\ result.remaining = SubSeq(input, 7 + n, Len(input))
        /\ Len(input) >= 6 =>
              \A b1 \in BodyBytes, b2 \in BodyBytes :
                  Subrecord_new([input EXCEPT ![5] = b1, ![6] = b2],
                                game_id, n, is_compressed) = result
        /\ \A g \in GameIds \ {"Morrowind"} :
              Subrecord_new(input, g, n, is_compressed) = result

C3_Witness ==
    /\ op = "new"
    /\ game_id # "Morrowind"
    /\ data_length_override # 0
    /\ result.kind = "Done"
    /\ input[5] + 256 * input[6] # data_length_override
    /\ result.remaining # <<>>

\* C4: a successful Subrecord::new partitions its input: input = type tag
\* (4 bytes) ++ length field (4 bytes for Morrowind, 2 otherwise) ++ data
\* ++ remaining, with len(data) the little-endian u32 of the field in the
\* long-length variant and the little-endian u16 in the short-length one.
C4_InputPartition ==
    (op = "new" /\ result.kind = "Done") =>
        LET w == IF game_id = "Morrowind" THEN 4 ELSE 2
            field == SubSeq(input, 5, 4 + w)
            s == result.value
        IN
        /\ Len(s.subrecord_type) = 4
        /\ Len(field) = w
        /\ input = s.subrecord_type \o field \o s.data \o result.remaining
        /\ game_id = "Morrowind" =>
              Len(s.data) = field[1] + 256 * field[2] + 65536 * field[3]
                            + 16777216 * field[4]
        /\ (game_id # "Morrowind" /\ data_length_override = 0) =>
              Len(s.data) = field[1] + 256 * field[2]

C4_Witness ==
    /\ op = "new"
    /\ game_id # "Morrowind"
    /\ data_length_override = 0
    /\ result.kind = "Done"
    /\ result.value.data # <<>>
    /\ result.remaining # <<>>

\* C5: in every variant, an input shorter than the subrecord requires
\* (truncated tag, truncated length field, or fewer payload bytes than the
\* length in force, a too large data_length_override included) makes
\* Subrecord::new return Incomplete, provided the tag bytes are valid.
C5_TruncatedIsIncomplete ==
    (op = "new") =>
        LET len == Len(input)
            w == IF game_id = "Morrowind" THEN 4 ELSE 2
            tagValid == len < 4 \/ from_utf8(SubSeq(input, 1, 4))
            payload ==
                IF game_id = "Morrowind"
                THEN input[5] + 256 * input[6] + 65536 * input[7]
                     + 16777216 * input[8]
                ELSE IF data_length_override # 0 THEN data_length_override
                ELSE input[5] + 256 * input[6]
            truncated == len < 4 + w \/ len < 4 + w + payload
        IN (tagValid /\ truncated) => result.kind = "Incomplete"

C5_Witness ==
    /\ op = "new"
    /\ game_id # "Morrowind"
    /\ data_length_override # 0
    /\ Len(input) >= 6
    /\ Len(input) = 6 + data_length_override - 1
    /\ result.kind = "Incomplete"

\* C6: for an input of at least 4 bytes, in every variant, Subrecord::new
\* fails with Error exactly when the first 4 bytes are not valid UTF-8; a
\* tag of ASCII bytes, zero included, is accepted, a tag that starts with a
\* continuation byte is rejected, and on success the type tag is those 4
\* bytes.
C6_MalformedIffInvalidUtf8 ==
    (op = "new" /\ Len(input) >= 4) =>
        LET tag == SubSeq(input, 1, 4) IN
        /\ (result.kind = "Error") <=> ~from_utf8(tag)
        /\ (\A k \in 1..4 : tag[k] < 128) => result.kind # "Error"
        /\ tag[1] \in 128..193 => result.kind = "Error"
        /\ result.kind = "Done" =>
              /\ result.value.subrecord_type = tag
              /\ Len(result.value.subrecord_type) = 4

C6_Witness ==
    /\ op = "new"
    /\ Len(input) >= 8
    /\ result.kind = "Error"
    /\ input[1] = 65
    /\ \A k \in 5..8 : input[k] = 0

\* C7: for a Subrecord with is_compressed = false, decompress_data returns
\* Ok with bytes equal to data, and the Subrecord is after the call what
\* the parser returned.
C7_UncompressedCopiesData ==
    (pc = "decompressed" /\ ~subrecord.is_compressed) =>
        /\ decompressed = Ok(subrecord.data)
        /\ subrecord = result.value

C7_Witness ==
    /\ pc = "decompressed"
    /\ ~subrecord.is_compressed
    /\ Len(subrecord.data) > 4
    /\ decompressed = Ok(subrecord.data)

\* C8: a zero-length payload parses successfully with empty data in each
\* variant: long-length (Morrowind, length field 0), short-length
\* (non-Morrowind, override 0, length field 0) and the presized parser with
\* data length 0.
C8_ZeroLengthPayload ==
    LET tagValid == from_utf8(SubSeq(input, 1, 4))
        empty == result.kind = "Done" /\ result.value.data = <<>>
    IN
    /\ ( /\ op = "new"
         /\ game_id = "Morrowind"
         /\ Len(input) >= 8
         /\ tagValid
         /\ \A k \in 5..8 : input[k] = 0 ) => empty
    /\ ( /\ op = "new"
         /\ game_id # "Morrowind"
         /\ data_length_override = 0
         /\ Len(input) >= 6
         /\ tagValid
         /\ input[5] = 0
         /\ input[6] = 0 ) => empty
    /\ ( /\ op = "presized_subrecord"
         /\ data_length_override = 0
         /\ Len(input) >= 6
         /\ tagValid ) => empty

C8_Witness ==
    /\ op = "presized_subrecord"
    /\ data_length_override = 0
    /\ Len(input) = 6
    /\ input[5] # 0
    /\ result.kind = "Done"
    /\ result.value.data = <<>>

\* C9: every Subrecord that a successful Subrecord::new returns with
\* is_compressed = true has at least 4 bytes of data, so decompress_data on
\* it returns the decompressed bytes or a decompression failure and never
\* aborts.
C9_CompressedHasHint ==
    (op = "new" /\ pc = "decompressed" /\ subrecord.is_compressed) =>
        /\ Len(subrecord.data) >= 4
        /\ decompressed.kind \in {"Ok", "Err"}

\* C10: for a compressed Subrecord the outcome of decompress_data depends
\* only on the bytes of data after the first 4: replacing the size hint by
\* any other leaves the outcome the same, so a hint that disagrees with the
\* produced length never causes rejection.
C10_HintIsIgnored ==
    (pc = "decompressed" /\ subrecord.is_compressed
        /\ Len(subrecord.data) >= 4) =>
        \A h \in Hints :
            decompress_data([subrecord EXCEPT !.data =
                                h \o Drop(subrecord.data, 4)]) = decompressed

C10_Witness ==
    /\ pc = "decompressed"
    /\ subrecord.is_compressed
    /\ decompressed.kind = "Ok"
    /\ decompressed.bytes # <<>>
    /\ SubSeq(subrecord.data, 1, 4) = <<0, 0, 0, 0>>

====
